---- MODULE Spec2Model ----
(***************************************************************************)
(* countdown-bot: the Countdown engine of src/src (SQLAlchemy version).    *)
(*                                                                         *)
(* One countdown channel.  Users post raw messages in the channel; the bot *)
(* runs one on_message task per posted message on a single asyncio event   *)
(* loop (cooperative scheduling: a task runs until it awaits).  Every task *)
(* opens its own database session, loads the countdown, validates the      *)
(* parsed message with Countdown.addMessage, awaits the reaction and pin   *)
(* calls and commits.  Commands are posted messages too: the task of a     *)
(* command text goes on to process_commands, where reload and activate     *)
(* rebuild the sequence from the channel history with loadCountdown and    *)
(* deactivate deletes the countdown.                                       *)
(*                                                                         *)
(* Database: the message table has the message id as primary key and a     *)
(* foreign key to the countdown (models.py 491-492); a session sees the    *)
(* rows committed when it loads, in primary-key order, and a commit that   *)
(* would insert an existing key, update a vanished row or reference a      *)
(* deleted countdown fails and leaves the database unchanged.              *)
(***************************************************************************)
EXTENDS Integers, Sequences, FiniteSets, TLC

\* ---------------------------------------------------------------- bounds
MaxPosts == 4          \* raw messages (numbers and commands) posted
MaxInFlight == 2       \* on_message tasks that have started and not ended
MaxTextLen == 3        \* characters of a text handed to the parser alone
MaxBound == 30         \* largest total handed to the prime loop alone
MaxNumber == 30        \* numbers 0 .. MaxNumber handed to the scoring rules alone
MaxTotal == 3          \* largest first number of a countdown that is queried
MaxTime == 3           \* latest clock reading, in hours, of a query

\* ------------------------------------------------------- program constants
PinMinTotal == 500     \* pins only when the countdown started at >= 500
PinDivisor == 50       \* pins every total // 50 numbers

HoursPerDay == 24      \* timedelta(days=1), the clock counts whole hours

\* ------------------------------------------------------------ input sets
Authors == {"A", "B"}
Admins == {"A"}
DigitChars == <<"0", "1", "2", "3", "4", "5", "6", "7", "8", "9">>
\* number texts users post: small numbers and a number at the pin threshold
NumberTexts == { <<"2">>, <<"1">>, <<"0">>, <<"5", "0", "0">> }
\* the command messages, which are posted in the channel like any message
ReloadText == <<"c", ".", "r", "e", "l", "o", "a", "d">>
ActivateText == <<"c", ".", "a", "c", "t", "i", "v", "a", "t", "e">>
DeactivateText == <<"c", ".", "d", "e", "a", "c", "t", "i", "v", "a", "t", "e">>
CommandTexts == {ReloadText, ActivateText, DeactivateText}
\* numbers with a custom reaction configured (countdown.reactions)
ReactionNumbers == {1}

\* characters of the texts handed to the parser alone: digits, the group
\* separator and one character that is neither
ParseChars == {"0", "1", "7", ",", "x"}

NoMatch == -1
NoTask == 0
PostIds == 1 .. MaxPosts

VARIABLES
  channel,   \* Discord channel history, oldest first: [id, author, content]
  active,    \* a countdown row exists for the channel
  db,        \* committed message rows of the countdown, in primary-key order
  pc,        \* pc[i]: position of the on_message task of raw message i
  sess,      \* sess[i]: countdown.messages in the open session of task i
             \* (<<>> when the task holds no list)
  ld,        \* ld[i]: loadCountdown state of a reload/activate task: the
             \* rows loaded at the clear, the fetched history, the loop index
  res,       \* res[i]: outcome of addMessage for raw message i itself
  signals,   \* signals[i]: the reaction and pin calls made on raw message i
  running,   \* the task that holds the event loop (NoTask: the loop is free)
  call,      \* the most recent Countdown.addMessage invocation
  countdown, \* countdown.messages, with timestamps, as an analytics query sees it
  now,       \* datetime.utcnow(), in hours
  arg,       \* the argument of the function under analysis
  loop,      \* locals of the prime loop of leaderboard: curTest, search, primes
  reply      \* the result of the last call of the function under analysis

\* the state of the bot
botVars == <<channel, active, db, pc, sess, ld, res, signals, running, call>>

\* the state of an analytics call
callVars == <<countdown, now, arg, loop, reply>>

vars == <<botVars, callVars>>

\* --------------------------------------------------------------- helpers
Last(s) == s[Len(s)]

Ids(s) == { s[k].id : k \in 1 .. Len(s) }

IsDigit(c) == \E d \in 1 .. 10 : DigitChars[d] = c

DigitValue(c) == (CHOOSE d \in 1 .. 10 : DigitChars[d] = c) - 1

\* length of the leading run of digits and commas: the match of "^[0-9,]+"
RECURSIVE LeadingRun(_)
LeadingRun(text) ==
  IF text = <<>> \/ ~(IsDigit(Head(text)) \/ Head(text) = ",")
  THEN 0
  ELSE 1 + LeadingRun(Tail(text))

\* .replace(",", "")
RECURSIVE StripCommas(_)
StripCommas(text) ==
  IF text = <<>> THEN <<>>
  ELSE IF Head(text) = "," THEN StripCommas(Tail(text))
  ELSE <<Head(text)>> \o StripCommas(Tail(text))

\* int(...) of a string of digits
RECURSIVE DigitsToInt(_)
DigitsToInt(digits) ==
  IF digits = <<>> THEN 0
  ELSE 10 * DigitsToInt(SubSeq(digits, 1, Len(digits) - 1))
       + DigitValue(Last(digits))

\* a parser that yields 0 for a text it cannot read
ParseNumber_ZeroOnMiss(text) ==
  LET run == SubSeq(text, 1, LeadingRun(text))
      digits == StripCommas(run)
  IN IF run = <<>> \/ digits = <<>> THEN 0 ELSE DigitsToInt(digits)

\* the number of parseMessage, NoMatch when findall(...)[0] or int("") raises
ParseNumber(text) ==
  LET run == SubSeq(text, 1, LeadingRun(text))
      digits == StripCommas(run)
  IN IF run = <<>> \/ digits = <<>> THEN NoMatch ELSE DigitsToInt(digits)

parseMessage(raw) ==
  [id |-> raw.id, author_id |-> raw.author, number |-> ParseNumber(raw.content)]

\* addMessage without the turn-taking test
addMessageOutcome_NoTurn(messages, message) ==
  IF Len(messages) # 0 /\ message.number + 1 # Last(messages).number
  THEN "WrongNumber"
  ELSE "accepted"

\* addMessage with the two tests in the other order
addMessageOutcome_NumberFirst(messages, message) ==
  IF Len(messages) # 0 /\ message.number + 1 # Last(messages).number
  THEN "WrongNumber"
  ELSE IF Len(messages) # 0 /\ message.author_id = Last(messages).author_id
  THEN "SameAuthor"
  ELSE "accepted"

\* addMessage that tolerates a repeated number
addMessageOutcome_Repeat(messages, message) ==
  IF Len(messages) # 0 /\ message.author_id = Last(messages).author_id
  THEN "SameAuthor"
  ELSE IF Len(messages) # 0 /\ message.number + 1 < Last(messages).number
  THEN "WrongNumber"
  ELSE "accepted"

\* addMessage that wants the first message to carry the pin threshold
addMessageOutcome_FixedStart(messages, message) ==
  IF Len(messages) # 0 /\ message.author_id = Last(messages).author_id
  THEN "SameAuthor"
  ELSE IF \/ Len(messages) # 0 /\ message.number + 1 # Last(messages).number
          \/ Len(messages) = 0 /\ message.number # PinMinTotal
  THEN "WrongNumber"
  ELSE "accepted"

\* Countdown.addMessage: the exception raised, or "accepted"
addMessageOutcome(messages, message) ==
  IF Len(messages) # 0 /\ message.author_id = Last(messages).author_id
  THEN "SameAuthor"
  ELSE IF Len(messages) # 0 /\ message.number + 1 # Last(messages).number
  THEN "WrongNumber"
  ELSE "accepted"

\* addMessage that overwrites the last element instead of appending
addMessageList_Overwrite(messages, message) ==
  IF addMessageOutcome(messages, message) = "accepted"
  THEN (IF messages = <<>> THEN <<>> ELSE SubSeq(messages, 1, Len(messages) - 1))
       \o <<message>>
  ELSE messages

\* addMessage that appends before it validates
addMessageList_AppendFirst(messages, message) ==
  messages \o <<message>>

\* Countdown.addMessage: the list afterwards
addMessageList(messages, message) ==
  IF addMessageOutcome(messages, message) = "accepted"
  THEN messages \o <<message>>
  ELSE messages

\* the record of one Countdown.addMessage invocation on object obj
CallOf(obj, messages, message) ==
  [obj |-> obj, before |-> messages, cand |-> message,
   outcome |-> addMessageOutcome(messages, message),
   after |-> addMessageList(messages, message)]

NoCall == [obj |-> -1, before |-> <<>>, cand |-> [id |-> 0, author_id |-> "", number |-> 0],
           outcome |-> "none", after |-> <<>>]

\* "Mark important messages": a custom reaction is configured for the number
HasReaction(message) == message.number \in ReactionNumbers

\* a pin test that asks for a total above the minimum
PinWorthy_Above(messages, message) ==
  /\ messages[1].number > PinMinTotal
  /\ message.number % (messages[1].number \div PinDivisor) = 0

\* the pin test of addMessage, on the list after the append
PinWorthy(messages, message) ==
  /\ messages[1].number >= PinMinTotal
  /\ message.number % (messages[1].number \div PinDivisor) = 0

\* the accepted message makes addMessage await (reaction or pin call)
Suspends(messages, message) ==
  HasReaction(message) \/ PinWorthy(messages, message)

\* the two reject reactions exchanged
RejectReaction_Swapped(outcome) ==
  IF outcome = "SameAuthor" THEN "x" ELSE "no_entry"

RejectReaction(outcome) ==
  IF outcome = "SameAuthor" THEN "no_entry" ELSE "x"

\* signals put on an accepted message once its awaits are over; a pin call
\* that raised leaves "pin_failed"
MarkSignals(messages, message, pinOk) ==
  (IF HasReaction(message) THEN <<"trigger">> ELSE <<>>)
  \o (IF PinWorthy(messages, message)
      THEN IF pinOk THEN <<"pin">> ELSE <<"pin_failed">>
      ELSE <<>>)

\* addMessage returns True: accepted and the pin call, if any, did not raise
Returns(messages, message, pinOk) ==
  ~PinWorthy(messages, message) \/ pinOk

\* rows in primary-key order after inserting one row
InsertSorted(rows, row) ==
  LET lower == SelectSeq(rows, LAMBDA r : r.id < row.id)
      upper == SelectSeq(rows, LAMBDA r : r.id > row.id)
  IN lower \o <<row>> \o upper

RECURSIVE InsertAll(_, _)
InsertAll(rows, new) ==
  IF new = <<>> THEN rows
  ELSE InsertAll(InsertSorted(rows, Head(new)), Tail(new))

\* a commit that stores the new row in front of the others
LiveCommit_Front(rows, exists, message) ==
  IF exists /\ message.id \notin Ids(rows)
  THEN <<message>> \o rows
  ELSE rows

\* session.commit() of an on_message task that appended message
LiveCommit(rows, exists, message) ==
  IF exists /\ message.id \notin Ids(rows)
  THEN InsertSorted(rows, message)
  ELSE rows

\* session.commit() of reload: rows loaded at the clear are deleted or
\* updated, the replayed ones inserted
ReloadCommitOk(rows, exists, old, new) ==
  /\ exists
  /\ \A k \in 1 .. Len(new) : (new[k].id \in Ids(old)) <=> (new[k].id \in Ids(rows))

ReloadCommit(rows, exists, old, new) ==
  IF ReloadCommitOk(rows, exists, old, new)
  THEN InsertAll(SelectSeq(rows, LAMBDA r : r.id \notin Ids(old) /\ r.id \notin Ids(new)), new)
  ELSE rows

\* session.add(countdown); session.commit() of activate
ActivateCommitOk(rows, exists, new) ==
  ~exists /\ Ids(new) \cap Ids(rows) = {}

NoLoad == [old |-> <<>>, hist |-> <<>>, idx |-> 0]

\* no analytics call is in progress
NoLoop == [pc |-> "idle", curTest |-> 0, search |-> 0, primes |-> <<>>]

NoReply == [status |-> "none"]

NoCountdown == [timezone |-> 0, messages |-> <<>>]

CallIdle ==
  /\ countdown = NoCountdown
  /\ now = 0
  /\ arg = <<>>
  /\ loop = NoLoop
  /\ reply = NoReply

\* the bot after construction, with an activated empty countdown
BotInit ==
  /\ channel = <<>>
  /\ active = TRUE
  /\ db = <<>>
  /\ pc = [i \in PostIds |-> "none"]
  /\ sess = [i \in PostIds |-> <<>>]
  /\ ld = [i \in PostIds |-> NoLoad]
  /\ res = [i \in PostIds |-> "none"]
  /\ signals = [i \in PostIds |-> <<>>]
  /\ running = NoTask
  /\ call = NoCall

\* ------------------------------------------------------------------ Init
Init == BotInit /\ CallIdle

\* --------------------------------------------------------------- actions
\* a user posts a raw message; discord.py schedules its on_message task
Post(a, c) ==
  /\ Len(channel) < MaxPosts
  /\ Cardinality({j \in PostIds : pc[j] \notin {"none", "done"}}) < MaxInFlight
  /\ c \in CommandTexts => a \in Admins
  /\ channel' = Append(channel, [id |-> Len(channel) + 1, author |-> a, content |-> c])
  /\ pc' = [pc EXCEPT ![Len(channel) + 1] = "new"]
  /\ UNCHANGED <<active, db, sess, ld, res, signals, running, call>>
  /\ UNCHANGED callVars

\* on_message of a number text up to its first suspension: load, parse,
\* validate, and commit when no reaction or pin call is awaited
HandleNumber(i) ==
  LET message == parseMessage(channel[i])
      outcome == addMessageOutcome(db, message)
      after == addMessageList(db, message)
  IN IF ~active
     THEN /\ pc' = [pc EXCEPT ![i] = "done"]
          /\ res' = [res EXCEPT ![i] = "nocountdown"]
          /\ UNCHANGED <<active, db, sess, call>>
     ELSE /\ call' = CallOf(i, db, message)
          /\ res' = [res EXCEPT ![i] = outcome]
          /\ UNCHANGED active
          /\ IF outcome # "accepted"
             THEN /\ pc' = [pc EXCEPT ![i] = "rejecting"]
                  /\ UNCHANGED <<db, sess>>
             ELSE IF Suspends(after, message)
             THEN /\ pc' = [pc EXCEPT ![i] = "marking"]
                  /\ sess' = [sess EXCEPT ![i] = after]
                  /\ UNCHANGED db
             ELSE /\ pc' = [pc EXCEPT ![i] = "done"]
                  /\ db' = LiveCommit(db, active, message)
                  /\ UNCHANGED sess

\* on_message of a text that is no number: addMessage returns False, then
\* process_commands runs the command up to its first await; deactivate
\* deletes the countdown and commits without awaiting
HandleCommand(i) ==
  LET text == channel[i].content
  IN /\ res' = [res EXCEPT ![i] = IF active THEN "nomatch" ELSE "nocountdown"]
     /\ UNCHANGED <<sess, call>>
     /\ IF text = DeactivateText /\ active
        THEN /\ active' = FALSE
             /\ db' = <<>>
             /\ pc' = [pc EXCEPT ![i] = "done"]
        ELSE /\ UNCHANGED <<active, db>>
             /\ pc' = [pc EXCEPT ![i] =
                  IF \/ text = ReloadText /\ active
                     \/ text = ActivateText /\ ~active
                  THEN "cmd" ELSE "done"]

\* the on_message task of raw message i starts (tasks start in the order
\* the messages arrive)
HandleMessage(i) ==
  /\ running = NoTask
  /\ pc[i] = "new"
  /\ \A j \in 1 .. i - 1 : pc[j] # "new"
  /\ IF ParseNumber(channel[i].content) # NoMatch
     THEN HandleNumber(i)
     ELSE HandleCommand(i)
  /\ UNCHANGED <<channel, ld, signals, running>>
  /\ UNCHANGED callVars

\* the reject reaction is added; addMessage returns False, nothing is committed
FinishReject(i) ==
  /\ running = NoTask
  /\ pc[i] = "rejecting"
  /\ signals' = [signals EXCEPT ![i] = Append(@, RejectReaction(res[i]))]
  /\ pc' = [pc EXCEPT ![i] = "done"]
  /\ UNCHANGED <<channel, active, db, sess, ld, res, running, call>>
  /\ UNCHANGED callVars

\* the reaction and pin calls of an accepted message are over; the session
\* is committed when addMessage returns True
FinishMark(i, pinOk) ==
  /\ running = NoTask
  /\ pc[i] = "marking"
  /\ LET message == Last(sess[i])
     IN /\ signals' = [signals EXCEPT ![i] = @ \o MarkSignals(sess[i], message, pinOk)]
        /\ db' = IF Returns(sess[i], message, pinOk)
                 THEN LiveCommit(db, active, message)
                 ELSE db
  /\ pc' = [pc EXCEPT ![i] = "done"]
  /\ sess' = [sess EXCEPT ![i] = <<>>]
  /\ UNCHANGED <<channel, active, ld, res, running, call>>
  /\ UNCHANGED callVars

\* a reload that starts from the stored rows instead of clearing the list
ReloadStart_NoClear(i) ==
  /\ running = NoTask
  /\ pc[i] = "cmd"
  /\ channel[i].content = ReloadText
  /\ ld' = [ld EXCEPT ![i] = [old |-> db, hist |-> <<>>, idx |-> 0]]
  /\ sess' = [sess EXCEPT ![i] = db]
  /\ pc' = [pc EXCEPT ![i] = "fetching"]
  /\ UNCHANGED <<channel, active, db, res, signals, running, call>>
  /\ UNCHANGED callVars

\* reload after its first response is sent, up to the history request of
\* loadCountdown: the session loads the stored rows and clears
\* countdown.messages
ReloadStart(i) ==
  /\ running = NoTask
  /\ pc[i] = "cmd"
  /\ channel[i].content = ReloadText
  /\ ld' = [ld EXCEPT ![i] = [old |-> db, hist |-> <<>>, idx |-> 0]]
  /\ sess' = [sess EXCEPT ![i] = <<>>]
  /\ pc' = [pc EXCEPT ![i] = "fetching"]
  /\ UNCHANGED <<channel, active, db, res, signals, running, call>>
  /\ UNCHANGED callVars

\* activate after its first response is sent, up to the history request of
\* loadCountdown: a new Countdown with messages = []
ActivateStart(i) ==
  /\ running = NoTask
  /\ pc[i] = "cmd"
  /\ channel[i].content = ActivateText
  /\ ld' = [ld EXCEPT ![i] = [old |-> <<>>, hist |-> <<>>, idx |-> 0]]
  /\ sess' = [sess EXCEPT ![i] = <<>>]
  /\ pc' = [pc EXCEPT ![i] = "fetching"]
  /\ UNCHANGED <<channel, active, db, res, signals, running, call>>
  /\ UNCHANGED callVars

\* loadCountdown: the channel history arrives, oldest first after reverse()
LoaderFetch(i) ==
  /\ running = NoTask
  /\ pc[i] = "fetching"
  /\ ld' = [ld EXCEPT ![i].hist = channel, ![i].idx = 1]
  /\ pc' = [pc EXCEPT ![i] = "replaying"]
  /\ running' = i
  /\ UNCHANGED <<channel, active, db, sess, res, signals, call>>
  /\ UNCHANGED callVars

\* loadCountdown: one iteration of the replay loop, up to the await of
\* addMessage (none for a text that is no number or an unmarked accept)
LoaderAdd(i) ==
  /\ running = i
  /\ pc[i] = "replaying"
  /\ ld[i].idx <= Len(ld[i].hist)
  /\ LET message == parseMessage(ld[i].hist[ld[i].idx])
         outcome == addMessageOutcome(sess[i], message)
         after == addMessageList(sess[i], message)
     IN IF message.number = NoMatch
        THEN /\ ld' = [ld EXCEPT ![i].idx = @ + 1]
             /\ UNCHANGED <<pc, sess, running, call>>
        ELSE /\ call' = CallOf(i, sess[i], message)
             /\ sess' = [sess EXCEPT ![i] = after]
             /\ IF outcome # "accepted" \/ Suspends(after, message)
                THEN /\ pc' = [pc EXCEPT ![i] = "awaiting"]
                     /\ running' = NoTask
                     /\ UNCHANGED ld
                ELSE /\ ld' = [ld EXCEPT ![i].idx = @ + 1]
                     /\ UNCHANGED <<pc, running>>
  /\ UNCHANGED <<channel, active, db, res, signals>>
  /\ UNCHANGED callVars

\* loadCountdown: the reaction or pin call of the replayed message is over
LoaderResume(i, pinOk) ==
  /\ running = NoTask
  /\ pc[i] = "awaiting"
  /\ LET raw == ld[i].hist[ld[i].idx]
         message == parseMessage(raw)
         accepted == sess[i] # <<>> /\ Last(sess[i]).id = raw.id
     IN signals' = [signals EXCEPT ![raw.id] =
                      IF accepted
                      THEN @ \o MarkSignals(sess[i], message, pinOk)
                      ELSE Append(@, RejectReaction(addMessageOutcome(sess[i], message)))]
  /\ ld' = [ld EXCEPT ![i].idx = @ + 1]
  /\ pc' = [pc EXCEPT ![i] = "replaying"]
  /\ running' = i
  /\ UNCHANGED <<channel, active, db, sess, res, call>>
  /\ UNCHANGED callVars

\* the replay loop is over: session.commit() of reload or activate, then
\* the final response is awaited
LoaderCommit(i) ==
  /\ running = i
  /\ pc[i] = "replaying"
  /\ ld[i].idx > Len(ld[i].hist)
  /\ IF channel[i].content = ReloadText
     THEN /\ db' = ReloadCommit(db, active, ld[i].old, sess[i])
          /\ pc' = [pc EXCEPT ![i] = IF ReloadCommitOk(db, active, ld[i].old, sess[i])
                                     THEN "committed" ELSE "failed"]
          /\ UNCHANGED active
     ELSE IF ActivateCommitOk(db, active, sess[i])
     THEN /\ db' = InsertAll(db, sess[i])
          /\ active' = TRUE
          /\ pc' = [pc EXCEPT ![i] = "committed"]
     ELSE /\ pc' = [pc EXCEPT ![i] = "failed"]
          /\ UNCHANGED <<db, active>>
  /\ running' = NoTask
  /\ UNCHANGED <<channel, sess, ld, res, signals, call>>
  /\ UNCHANGED callVars

\* the final response (or the error embed) is sent; the session is closed
LoaderFinish(i) ==
  /\ running = NoTask
  /\ pc[i] \in {"committed", "failed"}
  /\ pc' = [pc EXCEPT ![i] = "done"]
  /\ sess' = [sess EXCEPT ![i] = <<>>]
  /\ ld' = [ld EXCEPT ![i] = NoLoad]
  /\ UNCHANGED <<channel, active, db, res, signals, running, call>>
  /\ UNCHANGED callVars

Next ==
  \/ \E a \in Authors, c \in NumberTexts \cup CommandTexts : Post(a, c)
  \/ \E i \in PostIds : HandleMessage(i)
  \/ \E i \in PostIds : FinishReject(i)
  \/ \E i \in PostIds, pinOk \in BOOLEAN : FinishMark(i, pinOk)
  \/ \E i \in PostIds : ReloadStart(i)
  \/ \E i \in PostIds : ActivateStart(i)
  \/ \E i \in PostIds : LoaderFetch(i)
  \/ \E i \in PostIds : LoaderAdd(i)
  \/ \E i \in PostIds, pinOk \in BOOLEAN : LoaderResume(i, pinOk)
  \/ \E i \in PostIds : LoaderCommit(i)
  \/ \E i \in PostIds : LoaderFinish(i)

Spec == Init /\ [][Next]_vars

\* ------------------------------------------------- serialized handling
\* every task has ended
Quiet == \A j \in PostIds : pc[j] \in {"none", "done"}

\* the same program when messages and commands arrive one at a time, each
\* after the bot has finished handling the previous one
NextSerial ==
  \/ \E a \in Authors, c \in NumberTexts \cup CommandTexts : Quiet /\ Post(a, c)
  \/ \E i \in PostIds : HandleMessage(i)
  \/ \E i \in PostIds : FinishReject(i)
  \/ \E i \in PostIds, pinOk \in BOOLEAN : FinishMark(i, pinOk)
  \/ \E i \in PostIds : ReloadStart(i)
  \/ \E i \in PostIds : ActivateStart(i)
  \/ \E i \in PostIds : LoaderFetch(i)
  \/ \E i \in PostIds : LoaderAdd(i)
  \/ \E i \in PostIds, pinOk \in BOOLEAN : LoaderResume(i, pinOk)
  \/ \E i \in PostIds : LoaderCommit(i)
  \/ \E i \in PostIds : LoaderFinish(i)

SpecSerial == Init /\ [][NextSerial]_vars

\* ------------------------------------------------- the parser alone
RECURSIVE TextsUpTo(_)
TextsUpTo(len) ==
  IF len = 0 THEN { <<>> }
  ELSE LET shorter == TextsUpTo(len - 1)
       IN shorter \cup { Append(t, c) : t \in shorter, c \in ParseChars }

\* a raw message with any content of at most MaxTextLen characters arrives
InitParse ==
  /\ BotInit
  /\ countdown = NoCountdown
  /\ now = 0
  /\ arg \in TextsUpTo(MaxTextLen)
  /\ loop = NoLoop
  /\ reply = NoReply

\* parseMessage is applied to the content; a raised IndexError or ValueError
\* is the no-match of addMessage's bare except
Parse ==
  /\ reply.status = "none"
  /\ reply' = [status |-> "parsed", number |-> ParseNumber(arg)]
  /\ UNCHANGED <<botVars, countdown, now, arg, loop>>

NextParse == Parse

SpecParse == InitParse /\ [][NextParse]_vars

\* ----------------------------------------- the prime loop of leaderboard
\* curTest = 5; search = 1; primes = [2, 3]
PrimesStart == [pc |-> "loop", curTest |-> 5, search |-> 1, primes |-> <<2, 3>>]

\* an iteration that goes to the next prime whenever curTest is not divisible
PrimesIter_NoRootStop(l) ==
  IF l.search + 1 > Len(l.primes)
  THEN [l EXCEPT !.pc = "IndexError"]
  ELSE LET prime == l.primes[l.search + 1]
       IN IF l.curTest % prime = 0
          THEN [l EXCEPT !.curTest = @ + 2, !.search = 1]
          ELSE [l EXCEPT !.search = @ + 1]

\* one iteration of the while loop; primes[search] is 0-based in the code
\* and raises IndexError past the end; prime > math.sqrt(curTest) is
\* prime * prime > curTest
PrimesIter(l) ==
  IF l.search + 1 > Len(l.primes)
  THEN [l EXCEPT !.pc = "IndexError"]
  ELSE LET prime == l.primes[l.search + 1]
       IN IF l.curTest % prime = 0
          THEN [l EXCEPT !.curTest = @ + 2, !.search = 1]
          ELSE IF prime * prime > l.curTest
          THEN [l EXCEPT !.primes = Append(@, l.curTest), !.curTest = @ + 2, !.search = 1]
          ELSE [l EXCEPT !.search = @ + 1]

\* the iterations that test one value of curTest
RECURSIVE PrimesTest(_, _)
PrimesTest(l, tested) ==
  IF l.pc # "loop" \/ l.curTest # tested THEN l
  ELSE PrimesTest(PrimesIter(l), tested)

\* the whole loop: while curTest < n
RECURSIVE PrimesRun(_, _)
PrimesRun(l, n) ==
  IF l.pc # "loop" THEN l
  ELSE IF l.curTest < n THEN PrimesRun(PrimesTest(l, l.curTest), n)
  ELSE [l EXCEPT !.pc = "done"]

\* leaderboard is called on a countdown whose total is any n up to MaxBound
InitPrimes ==
  /\ BotInit
  /\ countdown = NoCountdown
  /\ now = 0
  /\ arg \in 0 .. MaxBound
  /\ loop = NoLoop
  /\ reply = NoReply

PrimesBegin ==
  /\ loop.pc = "idle"
  /\ loop' = PrimesStart
  /\ UNCHANGED <<botVars, countdown, now, arg, reply>>

PrimesStep ==
  /\ loop.pc = "loop"
  /\ loop.curTest < arg
  /\ loop' = PrimesIter(loop)
  /\ UNCHANGED <<botVars, countdown, now, arg, reply>>

PrimesEnd ==
  /\ loop.pc = "loop"
  /\ ~(loop.curTest < arg)
  /\ loop' = [loop EXCEPT !.pc = "done"]
  /\ reply' = [status |-> "primes", primes |-> loop.primes]
  /\ UNCHANGED <<botVars, countdown, now, arg>>

NextPrimes == PrimesBegin \/ PrimesStep \/ PrimesEnd

\* the loop is synchronous code: it goes on until it ends or raises
SpecPrimes == InitPrimes /\ [][NextPrimes]_vars /\ WF_vars(NextPrimes)

\* ------------------------------------------------- the scoring rules
\* The rules for awarding leaderboard points
POINT_RULES ==
  [c \in {"1000s", "1001s", "200s", "201s", "100s", "101s", "Prime Numbers",
          "Odd Numbers", "Even Numbers", "First Number"} |->
     CASE c = "1000s" -> 1000
       [] c = "1001s" -> 500
       [] c = "200s" -> 200
       [] c = "201s" -> 100
       [] c = "100s" -> 100
       [] c = "101s" -> 50
       [] c = "Prime Numbers" -> 15
       [] c = "Odd Numbers" -> 12
       [] c = "Even Numbers" -> 10
       [] c = "First Number" -> 0]

\* the primes list of leaderboard for a countdown that started at total
PrimesFor(total) == PrimesRun(PrimesStart, total).primes

\* scoring rules that test the hundreds before the two hundreds
classify_HundredsFirst(number, total, primes) ==
  IF number = total THEN "First Number"
  ELSE IF number % 1000 = 0 THEN "1000s"
  ELSE IF number % 1000 = 1 THEN "1001s"
  ELSE IF number % 100 = 0 THEN "100s"
  ELSE IF number % 100 = 1 THEN "101s"
  ELSE IF number % 200 = 0 THEN "200s"
  ELSE IF number % 200 = 1 THEN "201s"
  ELSE IF \E k \in 1 .. Len(primes) : primes[k] = number THEN "Prime Numbers"
  ELSE IF number % 2 = 1 THEN "Odd Numbers"
  ELSE "Even Numbers"

\* scoring rules that test the thousands before the first number
classify_ThousandsFirst(number, total, primes) ==
  IF number % 1000 = 0 THEN "1000s"
  ELSE IF number = total THEN "First Number"
  ELSE IF number % 1000 = 1 THEN "1001s"
  ELSE IF number % 200 = 0 THEN "200s"
  ELSE IF number % 200 = 1 THEN "201s"
  ELSE IF number % 100 = 0 THEN "100s"
  ELSE IF number % 100 = 1 THEN "101s"
  ELSE IF \E k \in 1 .. Len(primes) : primes[k] = number THEN "Prime Numbers"
  ELSE IF number % 2 = 1 THEN "Odd Numbers"
  ELSE "Even Numbers"

\* the if/elif chain of leaderboard: the breakdown entry a message counts in
classify(number, total, primes) ==
  IF number = total THEN "First Number"
  ELSE IF number % 1000 = 0 THEN "1000s"
  ELSE IF number % 1000 = 1 THEN "1001s"
  ELSE IF number % 200 = 0 THEN "200s"
  ELSE IF number % 200 = 1 THEN "201s"
  ELSE IF number % 100 = 0 THEN "100s"
  ELSE IF number % 100 = 1 THEN "101s"
  ELSE IF \E k \in 1 .. Len(primes) : primes[k] = number THEN "Prime Numbers"
  ELSE IF number % 2 = 1 THEN "Odd Numbers"
  ELSE "Even Numbers"

\* numbers around the multiples the rules test, beside 0 .. MaxNumber
Landmarks == {99, 100, 101, 199, 200, 201, 400, 401, 1000, 1001, 1200, 1201, 2000}

ScoredNumbers == (0 .. MaxNumber) \cup Landmarks

\* leaderboard is called on a countdown whose total is any scored number
InitClassify ==
  /\ BotInit
  /\ countdown = NoCountdown
  /\ now = 0
  /\ arg \in ScoredNumbers
  /\ loop = NoLoop
  /\ reply = NoReply

\* after the prime loop, the if/elif chain for a stored message (its number
\* is at most the total)
Classify(number) ==
  /\ loop.pc = "done"
  /\ number <= arg
  /\ reply' = [status |-> "category", number |-> number,
               category |-> classify(number, arg, loop.primes)]
  /\ UNCHANGED <<botVars, countdown, now, arg, loop>>

NextClassify ==
  \/ PrimesBegin
  \/ PrimesStep
  \/ PrimesEnd
  \/ \E number \in ScoredNumbers : Classify(number)

SpecClassify == InitClassify /\ [][NextClassify]_vars

\* ------------------------------------------------- statistics queries
\* The clock counts whole hours from Monday 2018-01-01 00:00 UTC, the anchor
\* of speed(); a message carries the clock reading of its creation, and a
\* query reads a clock that is past every stored message.  A float is kept
\* as the exact fraction [num, den] it rounds.
Timezones == {0, -1}

Frac(num, den) == [num |-> num, den |-> den]

Raised(error) == [status |-> error]

\* progress() with the two rate branches exchanged
progress_BranchesSwapped(messages, utcnow) ==
  IF Len(messages) = 0 THEN Raised("EmptyCountdownError")
  ELSE LET total == messages[1].number
           current == Last(messages).number
           start == messages[1].timestamp
           finished == Len(messages) > 1 /\ current = 0
           elapsed == IF finished THEN utcnow - start
                      ELSE Last(messages).timestamp - start
       IN IF total = 0 THEN Raised("ZeroDivisionError")
          ELSE IF Len(messages) > 1 /\ elapsed = 0 THEN Raised("ZeroDivisionError")
          ELSE [status |-> "ok",
                total |-> total,
                current |-> current,
                percentage |-> Frac((total - current) * 100, total),
                start |-> start,
                rate |-> IF Len(messages) > 1
                         THEN Frac((total - current) * HoursPerDay, elapsed)
                         ELSE Frac(0, 1),
                eta |-> IF finished THEN Frac(Last(messages).timestamp, 1)
                        ELSE IF Len(messages) > 1
                        THEN Frac(utcnow * (total - current) + current * elapsed,
                                  total - current)
                        ELSE Frac(utcnow, 1)]

\* Countdown.progress(): a division by zero raises ZeroDivisionError;
\* rate is in numbers per day, eta in hours of the clock
progress(messages, utcnow) ==
  IF Len(messages) = 0 THEN Raised("EmptyCountdownError")
  ELSE LET total == messages[1].number
           current == Last(messages).number
           start == messages[1].timestamp
           finished == Len(messages) > 1 /\ current = 0
           elapsed == IF finished THEN Last(messages).timestamp - start
                      ELSE utcnow - start
       IN IF total = 0 THEN Raised("ZeroDivisionError")
          ELSE IF Len(messages) > 1 /\ elapsed = 0 THEN Raised("ZeroDivisionError")
          ELSE [status |-> "ok",
                total |-> total,
                current |-> current,
                percentage |-> Frac((total - current) * 100, total),
                start |-> start,
                rate |-> IF Len(messages) > 1
                         THEN Frac((total - current) * HoursPerDay, elapsed)
                         ELSE Frac(0, 1),
                eta |-> IF finished THEN Frac(Last(messages).timestamp, 1)
                        ELSE IF Len(messages) > 1
                        THEN Frac(utcnow * (total - current) + current * elapsed,
                                  total - current)
                        ELSE Frac(utcnow, 1)]

\* sorted(entries, key=lambda x: x[key], reverse=True): stable
RECURSIVE SortDesc(_, _)
SortDesc(entries, key) ==
  IF entries = <<>> THEN <<>>
  ELSE LET front == SortDesc(SubSeq(entries, 1, Len(entries) - 1), key)
           entry == Last(entries)
       IN SelectSeq(front, LAMBDA x : x[key] >= entry[key])
          \o <<entry>>
          \o SelectSeq(front, LAMBDA x : x[key] < entry[key])

\* the authors in the order of their first message (insertion order of the
\* points dict)
RECURSIVE AuthorsInOrder(_)
AuthorsInOrder(messages) ==
  IF messages = <<>> THEN <<>>
  ELSE LET front == AuthorsInOrder(SubSeq(messages, 1, Len(messages) - 1))
           author == Last(messages).author_id
       IN IF \E k \in 1 .. Len(front) : front[k] = author
          THEN front
          ELSE Append(front, author)

\* sum(values) of a dict
RECURSIVE SumValues(_, _)
SumValues(dict, keys) ==
  IF keys = {} THEN 0
  ELSE LET key == CHOOSE k \in keys : TRUE
       IN dict[key] + SumValues(dict, keys \ {key})

\* the breakdown dict of one author after the classification loop
Breakdown(messages, author, primes) ==
  [c \in DOMAIN POINT_RULES |->
     Cardinality({ k \in 1 .. Len(messages) :
                     /\ messages[k].author_id = author
                     /\ classify(messages[k].number, messages[1].number, primes) = c })]

\* a leaderboard whose contributions leave out the First Number count
leaderboard_NoFirst(messages) ==
  IF Len(messages) = 0 THEN Raised("EmptyCountdownError")
  ELSE LET primes == PrimesFor(messages[1].number)
           authors == AuthorsInOrder(messages)
           entries ==
             [k \in 1 .. Len(authors) |->
                LET breakdown == Breakdown(messages, authors[k], primes)
                IN [author |-> authors[k],
                    breakdown |-> breakdown,
                    contributions |-> SumValues(breakdown, DOMAIN breakdown \ {"First Number"}),
                    points |-> SumValues([c \in DOMAIN breakdown |->
                                            breakdown[c] * POINT_RULES[c]],
                                         DOMAIN breakdown)]]
       IN [status |-> "ok", value |-> SortDesc(entries, "points")]

\* Countdown.leaderboard()
leaderboard(messages) ==
  IF Len(messages) = 0 THEN Raised("EmptyCountdownError")
  ELSE LET primes == PrimesFor(messages[1].number)
           authors == AuthorsInOrder(messages)
           entries ==
             [k \in 1 .. Len(authors) |->
                LET breakdown == Breakdown(messages, authors[k], primes)
                IN [author |-> authors[k],
                    breakdown |-> breakdown,
                    contributions |-> SumValues(breakdown, DOMAIN breakdown),
                    points |-> SumValues([c \in DOMAIN breakdown |->
                                            breakdown[c] * POINT_RULES[c]],
                                         DOMAIN breakdown)]]
       IN [status |-> "ok", value |-> SortDesc(entries, "points")]

\* Countdown.contributors(); authors is list(set(...)), in the order the
\* set happens to iterate
contributors(messages, authors) ==
  IF Len(messages) = 0 THEN Raised("EmptyCountdownError")
  ELSE LET entries ==
             [k \in 1 .. Len(authors) |->
                [author |-> authors[k],
                 contributions |-> Cardinality({ j \in 1 .. Len(messages) :
                                                   messages[j].author_id = authors[k] })]]
       IN [status |-> "ok", value |-> SortDesc(entries, "contributions")]

\* an advance that also takes a message stamped at the period end
EtaAdvance_Inclusive(messages, timezone, lastMessage, periodEnd) ==
  CHOOSE last \in lastMessage .. Len(messages) :
    /\ \A j \in lastMessage + 1 .. last : messages[j].timestamp + timezone <= periodEnd
    /\ last < Len(messages) => messages[last + 1].timestamp + timezone > periodEnd

\* eta(): "Advance to last message in period"; lastMessage is 1-based here
RECURSIVE EtaAdvance(_, _, _, _)
EtaAdvance(messages, timezone, lastMessage, periodEnd) ==
  IF lastMessage < Len(messages)
     /\ messages[lastMessage + 1].timestamp + timezone < periodEnd
  THEN EtaAdvance(messages, timezone, lastMessage + 1, periodEnd)
  ELSE lastMessage

\* eta(): the loop "while (periodEnd < end)" and the last data point
RECURSIVE EtaLoop(_, _, _, _, _, _, _)
EtaLoop(messages, timezone, period, utcnow, periodEnd, lastMessage, data) ==
  LET first == messages[1].timestamp + timezone
      end == IF Last(messages).number = 0
             THEN Last(messages).timestamp + timezone
             ELSE utcnow + timezone
  IN IF periodEnd < end
     THEN LET last == EtaAdvance(messages, timezone, lastMessage, periodEnd)
              done == messages[1].number - messages[last].number
          IN IF done = 0
             THEN Raised("ZeroDivisionError")
             ELSE EtaLoop(messages, timezone, period, utcnow, periodEnd + period, last,
                          [times |-> Append(data.times, periodEnd),
                           etas |-> Append(data.etas,
                                      Frac(periodEnd * done
                                             + messages[last].number * (periodEnd - first),
                                           done))])
     ELSE LET stats == progress(messages, utcnow)
          IN IF stats.status # "ok"
             THEN Raised(stats.status)
             ELSE [status |-> "ok",
                   times |-> Append(data.times, end),
                   etas |-> Append(data.etas, stats.eta)]

\* Countdown.eta(period)
eta(messages, timezone, period, utcnow) ==
  IF Len(messages) = 0 THEN Raised("EmptyCountdownError")
  ELSE LET first == messages[1].timestamp + timezone
       IN EtaLoop(messages, timezone, period, utcnow, first + period, 1,
                  [times |-> <<first>>, etas |-> <<Frac(first, 1)>>])

\* speed(): "while (message.timestamp + timezone - period >= periodStart)"
RECURSIVE SpeedAdvance(_, _, _)
SpeedAdvance(periodStart, shifted, period) ==
  IF shifted - period >= periodStart
  THEN SpeedAdvance(periodStart + period, shifted, period)
  ELSE periodStart

\* speed(): the loop over the messages; data is [starts, counts]
RECURSIVE SpeedLoop(_, _, _, _, _)
SpeedLoop(messages, timezone, period, periodStart, data) ==
  IF messages = <<>> THEN data
  ELSE LET start == SpeedAdvance(periodStart, Head(messages).timestamp + timezone, period)
           opened == IF data.starts = <<>> \/ Last(data.starts) # start
                     THEN [starts |-> Append(data.starts, start),
                           counts |-> Append(data.counts, 0)]
                     ELSE data
       IN SpeedLoop(Tail(messages), timezone, period, start,
                    [opened EXCEPT !.counts[Len(opened.counts)] = @ + 1])

\* a speed() that counts a message only when it does not open a period
speed_ElseCount(messages, timezone, period) ==
  IF Len(messages) = 0 THEN Raised("EmptyCountdownError")
  ELSE LET data == SpeedLoop(messages, timezone, period, 0, [starts |-> <<>>, counts |-> <<>>])
       IN [status |-> "ok", starts |-> data.starts,
           counts |-> [k \in 1 .. Len(data.counts) |-> data.counts[k] - 1]]

\* a speed() without the test for an empty countdown
speed_NoGuard(messages, timezone, period) ==
  LET data == SpeedLoop(messages, timezone, period, 0, [starts |-> <<>>, counts |-> <<>>])
  IN [status |-> "ok", starts |-> data.starts, counts |-> data.counts]

\* Countdown.speed(period); the clock reads 0 at datetime(2018, 1, 1)
speed(messages, timezone, period) ==
  IF Len(messages) = 0 THEN Raised("EmptyCountdownError")
  ELSE LET data == SpeedLoop(messages, timezone, period, 0, [starts |-> <<>>, counts |-> <<>>])
       IN [status |-> "ok", starts |-> data.starts, counts |-> data.counts]

NoUser == "None"

\* a heatmap() that does not skip the messages of other authors
heatmap_IgnoreUser(messages, timezone, user) ==
  IF Len(messages) = 0 THEN Raised("EmptyCountdownError")
  ELSE [status |-> "ok",
        value |->
          [dayOfWeek \in 0 .. 6 |->
             [timeOfDay \in 0 .. 23 |->
                Cardinality({ k \in 1 .. Len(messages) :
                  /\ ((((messages[k].timestamp + timezone) \div HoursPerDay) % 7) + 1) % 7
                       = dayOfWeek
                  /\ (messages[k].timestamp + timezone) % HoursPerDay = timeOfDay })]]]

\* Countdown.heatmap(user): rows are days from Sunday, columns hours; the
\* clock reads 0 on a Monday at 00:00
heatmap(messages, timezone, user) ==
  IF Len(messages) = 0 THEN Raised("EmptyCountdownError")
  ELSE [status |-> "ok",
        value |->
          [dayOfWeek \in 0 .. 6 |->
             [timeOfDay \in 0 .. 23 |->
                Cardinality({ k \in 1 .. Len(messages) :
                  /\ user = NoUser \/ messages[k].author_id = user
                  /\ ((((messages[k].timestamp + timezone) \div HoursPerDay) % 7) + 1) % 7
                       = dayOfWeek
                  /\ (messages[k].timestamp + timezone) % HoursPerDay = timeOfDay })]]]

\* contributors history: the points of one author after the first k messages
RECURSIVE HistoryPoints(_, _, _, _)
HistoryPoints(messages, author, total, k) ==
  IF k = 0 THEN << [progress |-> 0, percentage |-> Frac(0, 1), total |-> 0] >>
  ELSE LET front == HistoryPoints(messages, author, total, k - 1)
           message == messages[k]
           count == Last(front).total + (IF author = message.author_id THEN 1 ELSE 0)
       IN Append(front, [progress |-> total - message.number,
                         percentage |-> Frac(count * 100, total - message.number + 1),
                         total |-> count])

\* a history in which a message adds a point to the series of its author only
RECURSIVE HistoryPoints_PosterOnly(_, _, _, _)
HistoryPoints_PosterOnly(messages, author, total, k) ==
  IF k = 0 THEN << [progress |-> 0, percentage |-> Frac(0, 1), total |-> 0] >>
  ELSE LET front == HistoryPoints_PosterOnly(messages, author, total, k - 1)
           message == messages[k]
           count == Last(front).total + 1
       IN IF author = message.author_id
          THEN Append(front, [progress |-> total - message.number,
                              percentage |-> Frac(count * 100, total - message.number + 1),
                              total |-> count])
          ELSE front

\* a contributors history that tracks the poster only
contributorsHistory_PosterOnly(messages, utcnow) ==
  LET stats == progress(messages, utcnow)
  IN IF stats.status # "ok" THEN Raised(stats.status)
     ELSE [status |-> "ok",
           series |-> [author \in { messages[k].author_id : k \in 1 .. Len(messages) } |->
                         HistoryPoints_PosterOnly(messages, author, stats.total, Len(messages))]]

\* the contributors command with option "history": progress() and
\* contributors() are called first, then every message adds a point to the
\* series of every author
contributorsHistory(messages, utcnow) ==
  LET stats == progress(messages, utcnow)
  IN IF stats.status # "ok" THEN Raised(stats.status)
     ELSE [status |-> "ok",
           series |-> [author \in { messages[k].author_id : k \in 1 .. Len(messages) } |->
                         HistoryPoints(messages, author, stats.total, Len(messages))]]

\* period arguments of eta and speed, in hours
Periods == {1, 2}

Orderings(S) ==
  { order \in [1 .. Cardinality(S) -> S] :
      \A j, k \in 1 .. Cardinality(S) : j # k => order[j] # order[k] }

\* an empty countdown of any timezone is loaded by a session
InitStats ==
  /\ BotInit
  /\ countdown \in { [timezone |-> tz, messages |-> <<>>] : tz \in Timezones }
  /\ now = 0
  /\ arg = <<>>
  /\ loop = NoLoop
  /\ reply = NoReply

\* the clock goes on
Tick ==
  /\ now < MaxTime
  /\ now' = now + 1
  /\ reply' = NoReply
  /\ UNCHANGED <<botVars, countdown, arg, loop>>

\* a message created at an earlier clock reading is accepted by
\* Countdown.addMessage and stored
AddMessage(author, number, timestamp) ==
  LET message == [id |-> Len(countdown.messages) + 1, author_id |-> author,
                  number |-> number, timestamp |-> timestamp]
  IN /\ timestamp < now
     /\ countdown.messages # <<>> => Last(countdown.messages).timestamp <= timestamp
     /\ addMessageOutcome(countdown.messages, message) = "accepted"
     /\ countdown' = [countdown EXCEPT !.messages = addMessageList(@, message)]
     /\ reply' = NoReply
     /\ UNCHANGED <<botVars, now, arg, loop>>

Replied(query, result) == [status |-> "replied", query |-> query, result |-> result]

Progress ==
  /\ reply' = Replied("progress", progress(countdown.messages, now))
  /\ UNCHANGED <<botVars, countdown, now, arg, loop>>

Leaderboard ==
  /\ reply' = Replied("leaderboard", leaderboard(countdown.messages))
  /\ UNCHANGED <<botVars, countdown, now, arg, loop>>

Contributors(authors) ==
  /\ reply' = Replied("contributors", contributors(countdown.messages, authors))
  /\ UNCHANGED <<botVars, countdown, now, arg, loop>>

ContributorsHistory ==
  /\ reply' = Replied("history", contributorsHistory(countdown.messages, now))
  /\ UNCHANGED <<botVars, countdown, now, arg, loop>>

Eta(period) ==
  /\ reply' = [status |-> "replied", query |-> "eta", period |-> period,
               result |-> eta(countdown.messages, countdown.timezone, period, now)]
  /\ UNCHANGED <<botVars, countdown, now, arg, loop>>

Speed(period) ==
  /\ reply' = Replied("speed", speed(countdown.messages, countdown.timezone, period))
  /\ UNCHANGED <<botVars, countdown, now, arg, loop>>

Heatmap(user) ==
  /\ reply' = [status |-> "replied", query |-> "heatmap", user |-> user,
               result |-> heatmap(countdown.messages, countdown.timezone, user)]
  /\ UNCHANGED <<botVars, countdown, now, arg, loop>>

NextStats ==
  \/ Tick
  \/ \E author \in Authors, number \in 0 .. MaxTotal, timestamp \in 0 .. MaxTime :
       AddMessage(author, number, timestamp)
  \/ Progress
  \/ Leaderboard
  \/ \E authors \in Orderings({ countdown.messages[k].author_id :
                                  k \in 1 .. Len(countdown.messages) }) :
       Contributors(authors)
  \/ ContributorsHistory
  \/ \E period \in Periods : Eta(period)
  \/ \E period \in Periods : Speed(period)
  \/ \E user \in Authors \cup {NoUser} : Heatmap(user)

SpecStats == InitStats /\ [][NextStats]_vars

\* ================================================================ claims
\* strict decrement and turn-taking along a message sequence
Chain(s) ==
  \A k \in 2 .. Len(s) :
    /\ s[k].number = s[k - 1].number - 1
    /\ s[k].author_id # s[k - 1].author_id

Rejections == {"SameAuthor", "WrongNumber"}

IsPrefix(s, t) == Len(s) <= Len(t) /\ \A k \in 1 .. Len(s) : s[k] = t[k]

\* no command has been posted so far
NoCommands == \A k \in 1 .. Len(channel) : channel[k].content \in NumberTexts

\* this step is the Countdown.addMessage call of the on_message task i
LiveTry(i) ==
  /\ pc[i] = "new"
  /\ res[i] = "none"
  /\ res'[i] \in Rejections \cup {"accepted"}

\* this step is a Countdown.addMessage call of the replay loop of task i
LoaderTry(i) ==
  /\ running = i
  /\ pc[i] = "replaying"
  /\ ld[i].idx <= Len(ld[i].hist)
  /\ (pc'[i] # pc[i] \/ ld'[i] # ld[i])
  /\ ParseNumber(ld[i].hist[ld[i].idx].content) # NoMatch

\* the raw message the replay loop of task i is at
Replayed(i) == ld[i].hist[ld[i].idx]

\* the countdown.messages list of task i right after its addMessage call
LiveListAfter(i) ==
  IF pc'[i] = "marking" THEN sess'[i] ELSE db'

\* C1: every stored sequence (the committed rows, the list of every open
\* session, the list a replay builds from empty, the result of every
\* Countdown.addMessage call) is strictly decreasing by one with
\* alternating authors.
C1_ChainInvariant ==
  /\ Chain(db)
  /\ \A i \in PostIds : Chain(sess[i])
  /\ Chain(call.after)

C1_Witness ==
  /\ Len(db) = 3
  /\ db[3].number = 0
  /\ \E i \in PostIds : res[i] = "accepted" /\ pc[i] = "done"

\* C2: on a non-empty sequence a candidate of the last author is rejected
\* as SameAuthor whatever its number, the task goes on to the no_entry
\* reaction, and the sequence is unchanged.
C2_SameAuthorRejected ==
  [][ /\ \A i \in PostIds :
           (LiveTry(i) /\ db # <<>> /\ channel[i].author = Last(db).author_id)
             => /\ res'[i] = "SameAuthor"
                /\ pc'[i] = "rejecting"
                /\ db' = db
      /\ \A i \in PostIds :
           (LoaderTry(i) /\ sess[i] # <<>>
              /\ Replayed(i).author = Last(sess[i]).author_id)
             => /\ call'.outcome = "SameAuthor"
                /\ pc'[i] = "awaiting"
                /\ sess'[i] = sess[i]
      /\ \A i \in PostIds : pc[i] = "rejecting" => db' = db
    ]_vars

\* both cases: the right number and a wrong number from the last author
C2_Witness ==
  /\ db # <<>>
  /\ \E i, j \in PostIds :
       /\ res[i] = "SameAuthor" /\ res[j] = "SameAuthor"
       /\ pc[i] = "done" /\ pc[j] = "done"
       /\ channel[i].author = Last(db).author_id
       /\ channel[j].author = Last(db).author_id
       /\ ParseNumber(channel[i].content) = Last(db).number - 1
       /\ ParseNumber(channel[j].content) # Last(db).number - 1
       /\ signals[i] = <<"no_entry">> /\ signals[j] = <<"no_entry">>

\* C3: on a non-empty sequence a candidate of another author whose number
\* is not last.number - 1 is rejected as WrongNumber and the sequence is
\* unchanged.
C3_WrongNumberRejected ==
  [][ /\ \A i \in PostIds :
           (LiveTry(i) /\ db # <<>> /\ channel[i].author # Last(db).author_id
              /\ ParseNumber(channel[i].content) # Last(db).number - 1)
             => /\ res'[i] = "WrongNumber"
                /\ pc'[i] = "rejecting"
                /\ db' = db
      /\ \A i \in PostIds :
           (LoaderTry(i) /\ sess[i] # <<>>
              /\ Replayed(i).author # Last(sess[i]).author_id
              /\ ParseNumber(Replayed(i).content) # Last(sess[i]).number - 1)
             => /\ call'.outcome = "WrongNumber"
                /\ pc'[i] = "awaiting"
                /\ sess'[i] = sess[i]
    ]_vars

\* the scenario [A:n, B:n-1] then A with a number that is not n-2
C3_Witness ==
  /\ Len(db) = 2
  /\ \E i \in PostIds :
       /\ res[i] = "WrongNumber" /\ pc[i] = "done"
       /\ channel[i].author # Last(db).author_id
       /\ ParseNumber(channel[i].content) # Last(db).number - 1
       /\ signals[i] = <<"x">>

\* C4: on an empty sequence every candidate is accepted; the sequence is
\* then exactly that message, whose number is the total.
C4_EmptyAccepts ==
  [][ /\ \A i \in PostIds :
           (LiveTry(i) /\ db = <<>>)
             => /\ res'[i] = "accepted"
                /\ LiveListAfter(i) = <<parseMessage(channel[i])>>
                /\ LiveListAfter(i)[1].number = ParseNumber(channel[i].content)
      /\ \A i \in PostIds :
           (LoaderTry(i) /\ sess[i] = <<>>)
             => /\ call'.outcome = "accepted"
                /\ sess'[i] = <<parseMessage(Replayed(i))>>
    ]_vars

\* a first message that carries 0, committed
C4_Witness ==
  /\ Len(db) = 1
  /\ db[1].number = 0
  /\ \E i \in PostIds : res[i] = "accepted" /\ db[1].id = i

\* C5: on a non-empty sequence a candidate of another author with number
\* last.number - 1 is accepted and appended: the length grows by one and
\* the earlier elements are unchanged.
C5_ValidAppended ==
  [][ /\ \A i \in PostIds :
           (LiveTry(i) /\ db # <<>> /\ channel[i].author # Last(db).author_id
              /\ ParseNumber(channel[i].content) = Last(db).number - 1)
             => /\ res'[i] = "accepted"
                /\ LiveListAfter(i) = db \o <<parseMessage(channel[i])>>
      /\ \A i \in PostIds :
           (LoaderTry(i) /\ sess[i] # <<>>
              /\ Replayed(i).author # Last(sess[i]).author_id
              /\ ParseNumber(Replayed(i).content) = Last(sess[i]).number - 1)
             => /\ call'.outcome = "accepted"
                /\ Len(sess'[i]) = Len(sess[i]) + 1
                /\ IsPrefix(sess[i], sess'[i])
                /\ Last(sess'[i]) = parseMessage(Replayed(i))
    ]_vars

\* an append after the first message, live and then replayed by a reload
C5_Witness ==
  /\ Len(db) = 2
  /\ \E i \in PostIds : pc[i] = "committed" /\ Len(sess[i]) = 2
  /\ \E i \in PostIds : res[i] = "accepted" /\ db[2].id = i

\* C6: when the latest addMessage call on a countdown rejected a candidate
\* and the next call submits the same author and number again, the second
\* call is rejected with the same kind and the sequence is as long as it
\* was before the first call.
C6_RejectionIdempotent ==
  [][ /\ \A j \in PostIds :
           (LiveTry(j) /\ call.obj = j - 1
              /\ call.outcome \in Rejections
              /\ call.cand.author_id = channel[j].author
              /\ call.cand.number = ParseNumber(channel[j].content))
             => /\ res'[j] = call.outcome
                /\ Len(db') = Len(call.before)
                /\ db' = call.before
      /\ \A i \in PostIds :
           (LoaderTry(i) /\ ld[i].idx >= 2 /\ call.obj = i
              /\ call.cand.id = ld[i].hist[ld[i].idx - 1].id
              /\ call.outcome \in Rejections
              /\ call.cand.author_id = Replayed(i).author
              /\ call.cand.number = ParseNumber(Replayed(i).content))
             => /\ call'.outcome = call.outcome
                /\ Len(sess'[i]) = Len(call.before)
    ]_vars

\* the same wrong number posted twice in a row by the same author, live and
\* then replayed by a reload
C6_Witness ==
  /\ Len(channel) >= 4
  /\ Len(db) = 1
  /\ res[2] = "WrongNumber" /\ res[3] = "WrongNumber"
  /\ channel[2].author = channel[3].author
  /\ channel[2].content = channel[3].content
  /\ signals[3] = <<"x">>
  /\ channel[4].content = ReloadText
  /\ pc[4] = "awaiting"
  /\ ld[4].idx = 3
  /\ call.obj = 4 /\ call.cand.id = 3 /\ call.outcome = "WrongNumber"
  /\ Len(sess[4]) = 1

\* this step is the commit of the reload or activate of task i
ResetCommit(i) == pc[i] = "replaying" /\ pc'[i] \in {"committed", "failed"}

\* this step is a deactivate
ResetDelete == active /\ ~active'

RECURSIVE ReplayFrom(_, _)
ReplayFrom(messages, hist) ==
  IF hist = <<>> THEN messages
  ELSE LET message == parseMessage(Head(hist))
       IN ReplayFrom(IF message.number = NoMatch
                     THEN messages
                     ELSE addMessageList(messages, message),
                     Tail(hist))

\* C8 (as claimed): with on_message tasks of number messages only (no
\* command posted), the committed sequence is a strict chain in every
\* interleaving.
C8_SerializedAppends ==
  NoCommands => Chain(db)

\* C9 (as claimed): while a reload is between its clear and its commit no
\* on_message task validates a message against the countdown or commits one.
C9_ReloadExclusion ==
  [][ \A r \in PostIds :
        (pc[r] # "none" /\ channel[r].content = ReloadText
           /\ pc[r] \in {"fetching", "replaying", "awaiting"})
          => /\ \A i \in PostIds : ~LiveTry(i)
             /\ db' = db \/ ResetCommit(r)
    ]_vars

\* C10: when reload (or activate) has committed, its list and the stored
\* rows are the replay of the fetched history from the empty sequence,
\* whatever was stored before.
C10_ReloadRebuilds ==
  \A i \in PostIds :
    pc[i] = "committed"
      => /\ sess[i] = ReplayFrom(<<>>, ld[i].hist)
         /\ db = ReplayFrom(<<>>, ld[i].hist)

\* a reload whose result differs from the non-empty sequence stored before
C10_Witness ==
  \E i \in PostIds :
    /\ pc[i] = "committed"
    /\ channel[i].content = ReloadText
    /\ ld[i].old # <<>>
    /\ db # <<>>
    /\ db # ld[i].old
    /\ db[1] # ld[i].old[1]

\* the integer formed by the digits of the leading run of digits and commas,
\* read in one pass from the left
RECURSIVE LeadingValue(_, _)
LeadingValue(text, acc) ==
  IF text = <<>> THEN acc
  ELSE IF Head(text) = "," THEN LeadingValue(Tail(text), acc)
  ELSE IF IsDigit(Head(text)) THEN LeadingValue(Tail(text), 10 * acc + DigitValue(Head(text)))
  ELSE acc

BeginsWithDigit(text) == text # <<>> /\ IsDigit(text[1])

\* C11 (as claimed): the parser returns no-match exactly when the text does
\* not begin with a digit, and otherwise the integer formed by the digits of
\* the leading run of digits and commas.
C11_ParserContract ==
  reply.status = "parsed"
    => /\ (reply.number = NoMatch) <=> ~BeginsWithDigit(arg)
       /\ BeginsWithDigit(arg) => reply.number = LeadingValue(arg, 0)

\* the text has no leading run of digits and commas
Unreadable(text) == LeadingRun(text) = 0

\* C12: a message whose text is a parser no-match is dropped by addMessage,
\* live and in a replay: no Countdown.addMessage call, the lists and the
\* stored rows unchanged (a deactivate command then deletes the countdown
\* as a command), no reaction or pin on the message, and the task goes on.
C12_NoMatchDropped ==
  [][ /\ \A i \in PostIds :
           (pc[i] = "new" /\ pc'[i] # "new" /\ Unreadable(channel[i].content))
             => /\ res'[i] \in {"nomatch", "nocountdown"}
                /\ pc'[i] \in {"done", "cmd"}
                /\ call' = call
                /\ sess' = sess
                /\ signals' = signals
                /\ \/ db' = db
                   \/ channel[i].content = DeactivateText /\ db' = <<>>
      /\ \A i \in PostIds :
           (running = i /\ pc[i] = "replaying" /\ ld[i].idx <= Len(ld[i].hist)
              /\ ld'[i] # ld[i] /\ Unreadable(Replayed(i).content))
             => /\ call' = call
                /\ sess' = sess
                /\ signals' = signals
                /\ db' = db
                /\ pc'[i] = "replaying"
                /\ running' = i
      /\ \A k \in 1 .. Len(channel') :
           Unreadable(channel'[k].content) => signals'[k] = <<>>
    ]_vars

\* a text that is no number was handled live on a non-empty countdown and
\* then skipped by the replay of a reload
C12_Witness ==
  \E i, j \in PostIds :
    /\ i < j
    /\ pc[i] = "done" /\ res[i] = "nomatch"
    /\ Unreadable(channel[i].content)
    /\ signals[i] = <<>>
    /\ pc[j] = "committed"
    /\ Len(ld[j].hist) >= j
    /\ Len(db) = 1
    /\ Len(sess[j]) = 1

IsPrime(k) == k > 1 /\ \A d \in 2 .. k - 1 : k % d # 0

PrimesBelow(n) == { k \in 0 .. n - 1 : IsPrime(k) }

Elements(s) == { s[k] : k \in 1 .. Len(s) }

\* C16 (as claimed): for every bound n the list that leaderboard computes is
\* exactly the set of primes strictly less than n.
C16_PrimesBelowN ==
  loop.pc = "done" => Elements(loop.primes) = PrimesBelow(arg)

\* C16 (amended): 2 and 3 are seeded whatever n is, so the list is exactly
\* the primes below max(n, 4), in increasing order; the loop never indexes
\* past the end of the list and it terminates.
C16_PrimesBelowSeeded ==
  /\ [](loop.pc # "IndexError")
  /\ [](loop.pc = "loop" /\ loop.curTest < arg => loop.search + 1 <= Len(loop.primes))
  /\ [](loop.pc = "done"
          => /\ Elements(loop.primes) = PrimesBelow(IF arg < 4 THEN 4 ELSE arg)
             /\ \A k \in 2 .. Len(loop.primes) : loop.primes[k - 1] < loop.primes[k])
  /\ <>(loop.pc = "done")

\* the loop has ended for a bound above 25, the first composite that is not
\* a multiple of 3
C16_Witness ==
  /\ loop.pc = "done"
  /\ arg >= 26
  /\ Len(loop.primes) = 9
  /\ reply.status = "primes"

\* the categories in the precedence order of the claim
RuleOrder ==
  <<"First Number", "1000s", "1001s", "200s", "201s", "100s", "101s",
    "Prime Numbers", "Odd Numbers", "Even Numbers">>

\* the predicate of each category, taken alone
RuleHolds(c, number, total) ==
  CASE c = "First Number" -> number = total
    [] c = "1000s" -> number % 1000 = 0
    [] c = "1001s" -> number % 1000 = 1
    [] c = "200s" -> number % 200 = 0
    [] c = "201s" -> number % 200 = 1
    [] c = "100s" -> number % 100 = 0
    [] c = "101s" -> number % 100 = 1
    [] c = "Prime Numbers" -> IsPrime(number) /\ number < total
    [] c = "Odd Numbers" -> number % 2 = 1
    [] c = "Even Numbers" -> TRUE

\* C13: the category of a stored message is the first category of the fixed
\* order whose predicate holds, and it is one of the ten categories.
C13_FirstRuleWins ==
  reply.status = "category"
    => \E k \in 1 .. Len(RuleOrder) :
         /\ reply.category = RuleOrder[k]
         /\ RuleHolds(RuleOrder[k], reply.number, arg)
         /\ \A j \in 1 .. k - 1 : ~RuleHolds(RuleOrder[j], reply.number, arg)

\* 401 is prime and odd and counts as 201s
C13_Witness ==
  /\ reply.status = "category"
  /\ reply.number = 401
  /\ arg = 1000
  /\ reply.category = "201s"

\* the category the claimed order gives a number
RefCategory(number, total) ==
  RuleOrder[CHOOSE k \in 1 .. Len(RuleOrder) :
              /\ RuleHolds(RuleOrder[k], number, total)
              /\ \A j \in 1 .. k - 1 : ~RuleHolds(RuleOrder[j], number, total)]

\* the points of the first n messages that author wrote
RECURSIVE RefPoints(_, _, _)
RefPoints(msgs, author, n) ==
  IF n = 0 THEN 0
  ELSE RefPoints(msgs, author, n - 1)
       + (IF msgs[n].author_id = author
          THEN POINT_RULES[RefCategory(msgs[n].number, msgs[1].number)]
          ELSE 0)

RECURSIVE SumField(_, _)
SumField(entries, field) ==
  IF entries = <<>> THEN 0
  ELSE Head(entries)[field] + SumField(Tail(entries), field)

Stored == countdown.messages

AnswerOf(query) == reply.status = "replied" /\ reply.query = query

\* C14: the leaderboard of a non-empty sequence: the points of each entry
\* are the sum of category count times category value, its contributions
\* are the sum of its category counts (the messages of its author), and
\* the contributions of all entries add up to len(messages).
C14_LeaderboardSums ==
  (AnswerOf("leaderboard") /\ Stored # <<>>)
    => /\ reply.result.status = "ok"
       /\ \A k \in 1 .. Len(reply.result.value) :
            LET entry == reply.result.value[k]
                mine == { j \in 1 .. Len(Stored) : Stored[j].author_id = entry.author }
            IN /\ entry.points = RefPoints(Stored, entry.author, Len(Stored))
               /\ entry.contributions = Cardinality(mine)
               /\ \A c \in DOMAIN POINT_RULES :
                    entry.breakdown[c] =
                      Cardinality({ j \in mine :
                                      RefCategory(Stored[j].number, Stored[1].number) = c })
       /\ SumField(reply.result.value, "contributions") = Len(Stored)

\* two authors with different points on a finished countdown from 3
C14_Witness ==
  /\ AnswerOf("leaderboard")
  /\ Len(Stored) = 4
  /\ Len(reply.result.value) = 2
  /\ reply.result.value[1].points = 1015
  /\ reply.result.value[2].points = 500

FracLeq(a, b) == a.num * b.den <= b.num * a.den

\* C17: for every non-empty stored sequence, whatever its starting total,
\* progress() returns a percentage; the percentage is not below the one
\* progress() returns for any shorter prefix of the sequence (the sequence
\* before further valid messages were appended), and it is exactly 100
\* when the current number is 0.
C17_PercentageDefined ==
  (AnswerOf("progress") /\ Stored # <<>>)
    => /\ reply.result.status = "ok"
       /\ Last(Stored).number = 0
            => reply.result.percentage.num = 100 * reply.result.percentage.den
       /\ \A k \in 1 .. Len(Stored) - 1 :
            LET before == progress(SubSeq(Stored, 1, k), now)
            IN /\ before.status = "ok"
               /\ FracLeq(before.percentage, reply.result.percentage)

\* the rate (total - current) / elapsedDays and the eta that goes with it,
\* compared with a returned rate and eta without dividing: elapsed is in
\* hours, rate in numbers per day, eta in hours of the clock
RateIs(stats, elapsed) ==
  stats.rate.num * elapsed = (stats.total - stats.current) * HoursPerDay * stats.rate.den

EtaIsNowPlus(stats) ==
  stats.eta.num * stats.rate.num
    = (now * stats.rate.num + stats.current * HoursPerDay * stats.rate.den) * stats.eta.den

EtaIsTime(stats, time) == stats.eta.num = time * stats.eta.den

\* C18 as stated: where progress() returns on a sequence of at least two
\* messages, rate = (total - current) / elapsedDays with elapsedDays the
\* time between the first and the last message when the countdown is not
\* complete and the time between the first message and now when it is;
\* eta is now + current / rate days when ongoing and the timestamp of the
\* last message when complete; with fewer than two messages rate is 0 and
\* eta is now.
C18_RateAsStated ==
  (AnswerOf("progress") /\ Stored # <<>> /\ reply.result.status = "ok")
    => LET stats == reply.result
           complete == Last(Stored).number = 0
           elapsed == IF complete THEN now - Stored[1].timestamp
                      ELSE Last(Stored).timestamp - Stored[1].timestamp
       IN IF Len(Stored) >= 2
          THEN /\ RateIs(stats, elapsed)
               /\ IF complete THEN EtaIsTime(stats, Last(Stored).timestamp)
                  ELSE EtaIsNowPlus(stats)
          ELSE /\ stats.rate.num = 0
               /\ EtaIsTime(stats, now)

\* C18 (amended): on a sequence of at least two messages elapsedDays is the
\* time between the first and the last message when the countdown is
\* complete and the time between the first message and now when it is
\* not; progress() raises ZeroDivisionError when elapsedDays is 0 and
\* otherwise returns rate = (total - current) / elapsedDays, with eta the
\* timestamp of the last message when complete and now + current / rate
\* days when ongoing.  With a single message it raises ZeroDivisionError
\* when that message is numbered 0 and otherwise returns rate 0, eta now.
C18_RateAndEta ==
  (AnswerOf("progress") /\ Stored # <<>>)
    => LET stats == reply.result
           complete == Last(Stored).number = 0
           elapsed == IF complete THEN Last(Stored).timestamp - Stored[1].timestamp
                      ELSE now - Stored[1].timestamp
       IN IF Len(Stored) >= 2
          THEN IF elapsed = 0
               THEN stats.status = "ZeroDivisionError"
               ELSE /\ stats.status = "ok"
                    /\ stats.rate.den # 0 /\ stats.eta.den # 0
                    /\ RateIs(stats, elapsed)
                    /\ IF complete THEN EtaIsTime(stats, Last(Stored).timestamp)
                       ELSE EtaIsNowPlus(stats)
          ELSE IF Stored[1].number = 0
               THEN stats.status = "ZeroDivisionError"
               ELSE /\ stats.status = "ok"
                    /\ stats.rate.num = 0 /\ stats.rate.den # 0
                    /\ stats.eta.den # 0
                    /\ EtaIsTime(stats, now)

\* progress() has answered on a complete countdown of several messages
\* whose last message is older than the clock
C18_Witness ==
  /\ AnswerOf("progress")
  /\ Len(Stored) >= 2
  /\ Last(Stored).number = 0
  /\ reply.result.status = "ok"
  /\ Last(Stored).timestamp > Stored[1].timestamp
  /\ now > Last(Stored).timestamp + 1

Queries == {"progress", "speed", "eta", "heatmap", "contributors", "leaderboard"}

\* C19: every statistics or leaderboard query (progress, speed, eta,
\* heatmap, contributors, leaderboard) made on a countdown whose sequence
\* is empty is answered with EmptyCountdownError, and the step that
\* answers it leaves the countdown as it was.
C19_EmptyRejected ==
  [][(countdown.messages = <<>> /\ reply'.status = "replied")
       => /\ reply'.query \in Queries \cup {"history"}
          /\ reply'.result = Raised("EmptyCountdownError")
          /\ countdown' = countdown]_vars

\* each of the six queries is refused on an empty countdown: speed last
C19_Witness ==
  /\ Stored = <<>>
  /\ AnswerOf("speed")
  /\ reply.result.status = "EmptyCountdownError"

\* the other five have been refused on an empty countdown as well
C19_WitnessProgress == Stored = <<>> /\ AnswerOf("progress") /\ reply.result.status = "EmptyCountdownError"
C19_WitnessEta == Stored = <<>> /\ AnswerOf("eta") /\ reply.result.status = "EmptyCountdownError"
C19_WitnessHeatmap == Stored = <<>> /\ AnswerOf("heatmap") /\ reply.result.status = "EmptyCountdownError"
C19_WitnessContributors == Stored = <<>> /\ AnswerOf("contributors") /\ reply.result.status = "EmptyCountdownError"
C19_WitnessLeaderboard == Stored = <<>> /\ AnswerOf("leaderboard") /\ reply.result.status = "EmptyCountdownError"

\* C20: eta(period) on a sequence of fewer than two messages (none, or
\* exactly one) is answered with EmptyCountdownError and produces no time
\* series.
C20_EtaNeedsTwo ==
  (AnswerOf("eta") /\ Len(Stored) < 2)
    => reply.result = Raised("EmptyCountdownError")

\* the sum of a sequence of integers
RECURSIVE SumSeq(_)
SumSeq(values) ==
  IF values = <<>> THEN 0 ELSE Head(values) + SumSeq(Tail(values))

\* C21: for every non-empty sequence and every period, speed(period)
\* returns buckets whose message counts add up to len(messages); each
\* bucket has a start and a count, and no bucket is empty.
C21_SpeedCountsSum ==
  (AnswerOf("speed") /\ Stored # <<>>)
    => /\ reply.result.status = "ok"
       /\ Len(reply.result.starts) = Len(reply.result.counts)
       /\ \A k \in 1 .. Len(reply.result.counts) : reply.result.counts[k] >= 1
       /\ SumSeq(reply.result.counts) = Len(Stored)

\* speed() has answered with several buckets, one of them holding several
\* messages
C21_Witness ==
  /\ AnswerOf("speed")
  /\ Len(Stored) >= 3
  /\ reply.result.status = "ok"
  /\ Len(reply.result.counts) >= 2
  /\ \E k \in 1 .. Len(reply.result.counts) : reply.result.counts[k] >= 2

\* the sum of the cells of a 7x24 matrix
MatrixSum(matrix) ==
  SumSeq([d \in 1 .. 7 |-> SumSeq([h \in 1 .. 24 |-> matrix[d - 1][h - 1]])])

\* C22: for every non-empty sequence heatmap() returns a matrix of 7 rows
\* of 24 cells; without a user its cells add up to len(messages), and
\* filtered to an author they add up to the number of stored messages of
\* that author, 0 for an author who has none.
C22_HeatmapSum ==
  (AnswerOf("heatmap") /\ Stored # <<>>)
    => /\ reply.result.status = "ok"
       /\ DOMAIN reply.result.value = 0 .. 6
       /\ \A d \in 0 .. 6 : DOMAIN reply.result.value[d] = 0 .. 23
       /\ MatrixSum(reply.result.value)
            = IF reply.user = NoUser THEN Len(Stored)
              ELSE Cardinality({ k \in 1 .. Len(Stored) :
                                   Stored[k].author_id = reply.user })

\* heatmap() has answered for an author who wrote some but not all of the
\* stored messages
C22_Witness ==
  /\ AnswerOf("heatmap")
  /\ reply.user # NoUser
  /\ reply.result.status = "ok"
  /\ \E j, k \in 1 .. Len(Stored) :
       Stored[j].author_id = reply.user /\ Stored[k].author_id # reply.user

\* heatmap() has answered for an author without messages
C22_WitnessStranger ==
  /\ AnswerOf("heatmap")
  /\ reply.user # NoUser
  /\ Stored # <<>>
  /\ \A k \in 1 .. Len(Stored) : Stored[k].author_id # reply.user

\* the calls made on raw message k in a step
Added(k) == SubSeq(signals'[k], Len(signals[k]) + 1, Len(signals'[k]))

PinCalled(k) == \E j \in 1 .. Len(Added(k)) : Added(k)[j] \in {"pin", "pin_failed"}

\* the rule of the help text: "Pins numbers every 2% if the countdown
\* started at 500 or higher"
PinDue(total, number) ==
  /\ total >= 500
  /\ \E q \in 0 .. number : q * (total \div 50) = number

\* raw message k ends its marking in the step: the list it was appended to
MarkedList(k) ==
  IF pc[k] = "marking" /\ pc'[k] = "done" THEN sess[k]
  ELSE IF \E t \in PostIds :
            /\ pc[t] = "awaiting" /\ pc'[t] = "replaying"
            /\ ld[t].hist[ld[t].idx].id = k
            /\ sess[t] # <<>> /\ Last(sess[t]).id = k
       THEN sess[CHOOSE t \in PostIds :
                   /\ pc[t] = "awaiting" /\ pc'[t] = "replaying"
                   /\ ld[t].hist[ld[t].idx].id = k]
       ELSE <<>>

C23_WitnessZero ==
  /\ db # <<>>
  /\ db[1].number = 0
  /\ signals[db[1].id] = <<>>

RejectTags == {"no_entry", "x"}

MarkTags == {"trigger", "pin", "pin_failed"}

\* the step ends the await of the addMessage invocation recorded in call
\* (messages are handled one at a time)
Reports ==
  /\ call.obj \in PostIds
  /\ \/ pc[call.obj] = "rejecting" /\ pc'[call.obj] = "done"
     \/ pc[call.obj] = "marking" /\ pc'[call.obj] = "done"
     \/ pc[call.obj] = "awaiting" /\ pc'[call.obj] = "replaying"

\* C24: every addMessage invocation is reported by one tag: a SameAuthor
\* rejection by exactly one no_entry reaction on its raw message, a
\* WrongNumber rejection by exactly one x reaction; the report of a
\* rejection carries no trigger reaction and no pin, the marking of an
\* accepted message carries no reject reaction, and nothing is put on a
\* message outside the report of its own invocation.
C24_OneTaggedResult ==
  [][ /\ \A k \in PostIds :
           Added(k) # <<>>
             => /\ call.cand.id = k
                /\ Reports
                /\ call' = call
      /\ Reports
           => LET mine == Added(call.cand.id)
              IN /\ call.outcome = "SameAuthor" => mine = <<"no_entry">>
                 /\ call.outcome = "WrongNumber" => mine = <<"x">>
                 /\ call.outcome = "accepted"
                      => \A j \in 1 .. Len(mine) : mine[j] \in MarkTags
      /\ (call' # call /\ call'.outcome \in {"SameAuthor", "WrongNumber"})
           => /\ signals' = signals
              /\ call'.after = call'.before
              /\ pc'[call'.obj] \in {"rejecting", "awaiting"}
    ]_vars

\* a wrong number was rejected when it arrived and again in the replay of
\* a reload, with one x reaction each time, and a message counted out of
\* turn got its no_entry
C24_Witness ==
  /\ \E k \in PostIds : signals[k] = <<"x", "x">>
  /\ \E k \in PostIds : signals[k] = <<"no_entry">>

\* C25: addMessage returns True exactly when the parsed message was
\* appended to the countdown's list, whatever the reaction and pin calls
\* after the append do, so that on_message commits exactly when the list
\* was extended: when the on_message task of a raw message whose candidate
\* Countdown.addMessage accepted ends, the message is among the committed
\* rows, and when the task of any other raw message ends the committed rows
\* are as they were.
C25_ReturnsIffAppended ==
  [][\A i \in PostIds :
       (pc[i] \in {"new", "marking", "rejecting"} /\ pc'[i] = "done" /\ active)
         => IF res'[i] = "accepted"
            THEN \E k \in 1 .. Len(db') : db'[k].id = i
            ELSE db' = db \/ channel[i].content = DeactivateText
    ]_vars

\* the messages of an author among the first k
CountUpTo(author, k) ==
  Cardinality({ j \in 1 .. k : Stored[j].author_id = author })

Shifted(k) == Stored[k].timestamp + countdown.timezone

\* the projection at boundary b drawn from the message numbered n:
\* b + n / rate days with rate = (total - n) / (days from the start to b)
ProjectedFrom(projection, b, n) ==
  /\ projection.den # 0
  /\ projection.num * (Stored[1].number - n)
       = (b * (Stored[1].number - n) + n * (b - Shifted(1))) * projection.den

\* what holds of every series eta(period) returns, given the index of the
\* message each boundary is extrapolated from
EtaSeries(MessageAt(_)) ==
  LET times == reply.result.times
      etas == reply.result.etas
      stats == progress(Stored, now)
  IN /\ Len(times) = Len(etas)
     /\ Len(times) >= 2
     /\ times[1] = Shifted(1)
     /\ etas[1].num = Shifted(1) * etas[1].den
     /\ \A j \in 2 .. Len(times) : times[j - 1] < times[j]
     /\ \A j \in 2 .. Len(times) - 1 :
          /\ times[j] = Shifted(1) + (j - 1) * reply.period
          /\ ProjectedFrom(etas[j], times[j], Stored[MessageAt(times[j])].number)
     /\ stats.status = "ok"
     /\ Last(etas) = stats.eta

\* the most recent message stamped at or before b
LastAtOrBefore(b) ==
  CHOOSE k \in 1 .. Len(Stored) :
    /\ Shifted(k) <= b
    /\ \A j \in k + 1 .. Len(Stored) : Shifted(j) > b

\* the most recent message stamped before b
LastBefore(b) ==
  CHOOSE k \in 1 .. Len(Stored) :
    /\ Shifted(k) < b
    /\ \A j \in k + 1 .. Len(Stored) : Shifted(j) >= b

\* C27 as stated: where eta(period) returns a series, the projection at
\* each period boundary b is extrapolated from the most recent message
\* stamped at or before b, a message stamped exactly at b included; the
\* boundaries are strictly increasing, the first point is (start, start)
\* and the projection of the final point is progress().eta.
C27_EtaAtOrBefore ==
  (AnswerOf("eta") /\ reply.result.status = "ok") => EtaSeries(LastAtOrBefore)

\* C27 (amended): the projection at each period boundary b is extrapolated
\* from the most recent message stamped strictly before b, a message
\* stamped exactly at b belonging to the next period; the rest as stated.
C27_EtaBefore ==
  (AnswerOf("eta") /\ reply.result.status = "ok") => EtaSeries(LastBefore)

\* eta() has returned a series with a period boundary on which a message
\* is stamped exactly
C27_Witness ==
  /\ AnswerOf("eta")
  /\ reply.result.status = "ok"
  /\ Len(reply.result.times) >= 3
  /\ \E j \in 2 .. Len(reply.result.times) - 1 :
       \E k \in 1 .. Len(Stored) : Shifted(k) = reply.result.times[j]

\* C28: on a sequence of at least two messages with non-decreasing
\* timestamps, for every period and every clock reading not before the
\* last message, eta(period) returns a time series and raises nothing,
\* also when no message after the first falls before the first period
\* boundary.
C28_EtaNeverFails ==
  (AnswerOf("eta") /\ Len(Stored) >= 2)
    => /\ reply.result.status = "ok"
       /\ Len(reply.result.times) >= 2

\* the numbers of a sequence go down by one from message to message
GapFree(s) == \A k \in 2 .. Len(s) : s[k].number = s[k - 1].number - 1

\* C29: in every reachable state with stored messages the stored numbers
\* are strictly decreasing without gaps: len(messages) is the first number
\* minus the last plus one, no number occurs twice, and total - number + 1
\* (the denominator of the contributor history) is the position of each
\* message.
C29_GapFree ==
  db # <<>>
    => /\ GapFree(db)
       /\ Len(db) = db[1].number - Last(db).number + 1
       /\ \A j, k \in 1 .. Len(db) : j # k => db[j].number # db[k].number
       /\ \A k \in 1 .. Len(db) : db[1].number - db[k].number + 1 = k

\* a message numbered 0 has been accepted and stored as the last one
Finished == db # <<>> /\ Last(db).number = 0

\* C30: once a message numbered 0 has been accepted, every later candidate
\* (the parser yields no negative number) is rejected as SameAuthor or
\* WrongNumber, live or in a replay that has reached the 0, and the stored
\* sequence stays as it is until the commit of a reload or a deactivate;
\* so the stored sequence never holds more than T + 1 messages, T being
\* its first number.
C30_NothingAfterZero ==
  [][ /\ Finished
        => /\ \A i \in PostIds : LiveTry(i) => res'[i] \in Rejections
           /\ ((\A i \in PostIds : ~ResetCommit(i)) /\ ~ResetDelete) => db' = db
      /\ \A i \in PostIds :
           (LoaderTry(i) /\ sess[i] # <<>> /\ Last(sess[i]).number = 0)
             => sess'[i] = sess[i]
      /\ db' # <<>> => Len(db') <= db'[1].number + 1
    ]_vars

\* after the 0 of a countdown from 1 a further number was posted and
\* rejected, and the two messages are still the stored sequence
C30_Witness ==
  /\ Finished
  /\ Len(db) = 2
  /\ \E i \in PostIds :
       /\ pc[i] = "done"
       /\ res[i] \in Rejections
       /\ i > Last(db).id

====
